---- MODULE Spec2Model ----
(***************************************************************************)
(* A model of the FastAPI boiler template:                                 *)
(*   - the unit of work (core/database.py) and the generic repositories    *)
(*     (repositories/base_repository.py, async_base_repository.py),        *)
(*     specification SpecRepo;                                             *)
(*   - the request pipeline of main.py (middleware stack, router,          *)
(*     exception handlers, response envelopes), specification SpecHttp.    *)
(***************************************************************************)
EXTENDS Integers, Sequences, FiniteSets, TLC

(***************************************************************************)
(* Bounds of the model.                                                    *)
(***************************************************************************)
\* entity identifiers are 1..MaxId (the UUID primary keys of the store)
MaxId == 3
\* the non-key column of an entity holds 0..MaxValue
MaxValue == 1
\* get_all is called with skip in 0..MaxSkip
MaxSkip == 2
\* get_all is called with limit in 1..MaxLimit
MaxLimit == 2
\* bulk_insert is called with 1..MaxBulk mappings
MaxBulk == 2
\* a handler makes at most MaxWrites create/update/delete/bulk_insert calls
MaxWrites == 2
\* a handler driving both repositories makes at most MaxCalls steps
MaxCalls == 3

VARIABLES
    \* ---- unit of work and repository (SpecRepo) ----
    committed,   \* durable rows of the table, in the engine's default order
    uow,         \* which DI generator of core/database.py opened the session
    txRows,      \* the rows as the open session's transaction sees them
    pc,          \* position of the request: idle, handler, returned, raised, closed
    exc,         \* the exception that ended the handler ("None" if none)
    ret,         \* the last repository call and what it returned
    staged,      \* the rows the transaction saw when the handler ended
    snapshot,    \* the committed rows when the session was opened
    nwrites,     \* repository writes made by the handler so far
    \* ---- request pipeline (SpecHttp), one entry per request ----
    hpc,         \* where the request is in the middleware stack
    req,         \* the inbound request: its path and its X-Request-ID header
    state,       \* request.state: the request-scoped attributes
    ctx,         \* the request id bound in the logging context of the task
    assigned,    \* the correlation id the middleware decided for the request
    thrown,      \* the exception first raised while serving the request
    pending,     \* the exception propagating up the stack, if any
    resp,        \* the response travelling down the stack, if any
    logs,        \* the log lines emitted while serving the request
    generated,   \* the identifiers uuid4 has produced so far
    \* ---- the two repositories side by side (SpecPair) ----
    ppc,         \* position of the handler driving both: idle, handler, raised
    psync,       \* the session of SessionLocal() under BaseRepository
    pasync,      \* the session of AsyncSessionLocal() under AsyncBaseRepository
    plast,       \* the last call and what each repository returned
    pheld,       \* ids of the entities the handler holds a reference to
    pn           \* calls and attribute assignments the handler has made

repoVars == <<committed, uow, txRows, pc, exc, ret, staged, snapshot, nwrites>>

httpVars ==
    <<hpc, req, state, ctx, assigned, thrown, pending, resp, logs, generated>>

pairVars == <<ppc, psync, pasync, plast, pheld, pn>>

vars == <<committed, uow, txRows, pc, exc, ret, staged, snapshot, nwrites,
          hpc, req, state, ctx, assigned, thrown, pending, resp, logs, generated,
          ppc, psync, pasync, plast, pheld, pn>>

(***************************************************************************)
(* Entities and the table.                                                 *)
(***************************************************************************)
Ids == 1..MaxId
Values == 0..MaxValue

\* a row of the table / an entity object: the primary key and one column
Entity == [id : Ids, value : Values]

\* Optional[T]: None is the empty sequence, an entity e is <<e>>
None == <<>>
Some(e) == <<e>>

RowIds(rows) == {rows[k].id : k \in 1..Len(rows)}

RECURSIVE SelectWhere(_, _)
\* SELECT ... WHERE id = :id, in the engine's order
SelectWhere(rows, id) ==
    IF rows = <<>> THEN <<>>
    ELSE IF Head(rows).id = id
         THEN <<Head(rows)>> \o SelectWhere(Tail(rows), id)
         ELSE SelectWhere(Tail(rows), id)

\* Query.first() / ScalarResult.first(): the first row or None
First(rows) == IF rows = <<>> THEN None ELSE Some(Head(rows))

RECURSIVE Offset(_, _)
\* SQL OFFSET n: drop the first n rows
Offset(rows, n) ==
    IF n <= 0 \/ rows = <<>> THEN rows ELSE Offset(Tail(rows), n - 1)

RECURSIVE Limit(_, _)
\* SQL LIMIT n: keep the first n rows
Limit(rows, n) ==
    IF n <= 0 \/ rows = <<>> THEN <<>>
    ELSE <<Head(rows)>> \o Limit(Tail(rows), n - 1)


(***************************************************************************)
(* The ORM session, as far as the repositories use it.  An object handed   *)
(* to the repository is either transient (built by the caller, not yet in  *)
(* the session; its id is the caller's or the column default, which never  *)
(* collides) or persistent (the session's instance of a row it loaded or   *)
(* created, perhaps with a changed column).                                *)
(***************************************************************************)
ObjStates == {"transient", "persistent"}
Obj == [id : Ids, value : Values, state : ObjStates]

ToEntity(obj) == [id |-> obj.id, value |-> obj.value]

\* the objects a handler can hold when the transaction sees `rows`
HandlerObjs(rows) ==
    {o \in Obj : o.state = "persistent" => o.id \in RowIds(rows)}

\* UPDATE ... WHERE id = e.id: the row keeps its place
UpdateRow(rows, e) ==
    [k \in 1..Len(rows) |-> IF rows[k].id = e.id THEN e ELSE rows[k]]

\* DELETE ... WHERE id = :id
DeleteRow(rows, id) == SelectSeq(rows, LAMBDA r : r.id # id)

\* Session.add(obj) then Session.flush(): INSERT for a transient object
\* (IntegrityError on a duplicate primary key), UPDATE for a persistent one.
\* A failed statement leaves the rows as they were.
Session_add_flush(rows, obj) ==
    IF obj.state = "persistent"
    THEN [rows |-> UpdateRow(rows, ToEntity(obj)), exc |-> "None"]
    ELSE IF obj.id \in RowIds(rows)
         THEN [rows |-> rows, exc |-> "IntegrityError"]
         ELSE [rows |-> Append(rows, ToEntity(obj)), exc |-> "None"]

\* Session.delete(obj) then Session.flush(): only a persistent object can be
\* deleted; Session.delete raises InvalidRequestError for a transient one.
Session_delete_flush(rows, obj) ==
    IF obj.state = "persistent"
    THEN [rows |-> DeleteRow(rows, obj.id), exc |-> "None"]
    ELSE [rows |-> rows, exc |-> "InvalidRequestError"]

\* whether a list of mappings repeats a primary key
RepeatsKey(mappings) ==
    \E j, k \in 1..Len(mappings) : j # k /\ mappings[j].id = mappings[k].id

\* Session.execute(insert(model), mappings) then flush: one multi-row INSERT,
\* which fails as a whole on a duplicate primary key.
Session_execute_insert(rows, mappings) ==
    IF RepeatsKey(mappings)
       \/ \E k \in 1..Len(mappings) : mappings[k].id \in RowIds(rows)
    THEN [rows |-> rows, exc |-> "IntegrityError"]
    ELSE [rows |-> rows \o mappings, exc |-> "None"]

(***************************************************************************)
(* The model class: its mapped columns and its other class attributes.     *)
(***************************************************************************)
Columns == {"id", "value"}
\* attributes every declarative model has that are no columns (Base.metadata)
ClassAttributes == {"metadata"}
\* names the model class does not have at all
UnknownNames == {"no_such_field"}
AttributeNames == Columns \cup ClassAttributes \cup UnknownNames
Directions == {"desc", "asc", "DESC"}

\* getattr(self.model, column, None)
Model_getattr(column) ==
    IF column \in Columns THEN [kind |-> "column", name |-> column]
    ELSE IF column \in ClassAttributes THEN [kind |-> "object", name |-> column]
    ELSE [kind |-> "None", name |-> column]

\* Python truth of what getattr returned: None is false, the objects are true
Truthy(attr) == attr.kind # "None"

ColumnOf(row, name) == IF name = "id" THEN row.id ELSE row.value

RECURSIVE InsertSorted(_, _, _, _)
\* place row r after the rows of `sorted` that do not sort after it
InsertSorted(sorted, r, name, descending) ==
    IF sorted = <<>> THEN <<r>>
    ELSE IF (IF descending
             THEN ColumnOf(Head(sorted), name) >= ColumnOf(r, name)
             ELSE ColumnOf(Head(sorted), name) <= ColumnOf(r, name))
         THEN <<Head(sorted)>> \o InsertSorted(Tail(sorted), r, name, descending)
         ELSE <<r>> \o sorted

RECURSIVE SortRows(_, _, _)
\* SELECT ... ORDER BY name [DESC]; rows that tie keep the engine's order
SortRows(rows, name, descending) ==
    IF rows = <<>> THEN <<>>
    ELSE InsertSorted(SortRows(SubSeq(rows, 1, Len(rows) - 1), name, descending),
                      rows[Len(rows)], name, descending)

\* desc(sort_column) / asc(sort_column) and the query: a column sorts, any
\* other object is refused by the expression coercion (ArgumentError)
OrderedQuery(rows, attr, descending) ==
    IF attr.kind = "column"
    THEN [result |-> SortRows(rows, attr.name, descending), exc |-> "None"]
    ELSE [result |-> <<>>, exc |-> "ArgumentError"]

\* the keyword arguments of filter_by / filter_by_one / count: a mapping from
\* some attribute names to values; the empty mapping is "no kwargs"
NoKwargs == [f \in {} |-> 0]
Kwargs ==
    {NoKwargs}
    \cup {[f \in {"id"} |-> i] : i \in Ids}
    \cup {[f \in {"value"} |-> v] : v \in Values}
    \cup {[f \in {"id", "value"} |-> IF f = "id" THEN i ELSE v] :
             i \in Ids, v \in Values}
    \cup {[f \in UnknownNames |-> 0]}

\* Python truth of a dict: empty is false
DictTruthy(kwargs) == DOMAIN kwargs # {}

\* a row satisfies every key = value pair of the mapping
Matches(row, kwargs) ==
    \A f \in DOMAIN kwargs : ColumnOf(row, f) = kwargs[f]

\* Query.filter_by(**kwargs) / Select.filter_by(**kwargs): each key is looked
\* up on the entity (InvalidRequestError when the entity has no such
\* property) and the conditions are joined by AND
FilteredQuery(rows, kwargs) ==
    IF \E f \in DOMAIN kwargs : f \notin Columns
    THEN [result |-> <<>>, exc |-> "InvalidRequestError"]
    ELSE [result |-> SelectSeq(rows, LAMBDA r : Matches(r, kwargs)),
          exc |-> "None"]


(***************************************************************************)
(* BaseRepository (blocking).  Each operator takes the rows the session's  *)
(* transaction sees and gives the rows after the call, what the call       *)
(* returned and the exception it raised ("None" if none).                  *)
(***************************************************************************)
BaseRepository_get_by_id(rows, id) ==
    [rows |-> rows, result |-> First(SelectWhere(rows, id)), exc |-> "None"]

\* faulty variant: the window taken as rows[skip:limit] instead of skip, then limit
BaseRepository_get_all_slice(rows, skip, limit) ==
    [rows |-> rows, result |-> Limit(Offset(rows, skip), limit - skip),
     exc |-> "None"]

BaseRepository_get_all(rows, skip, limit) ==
    [rows |-> rows, result |-> Limit(Offset(rows, skip), limit), exc |-> "None"]

\* faulty variant: the object is added but not flushed, so no INSERT is emitted
BaseRepository_create_no_flush(rows, obj) ==
    [rows |-> rows, result |-> Some(ToEntity(obj)), exc |-> "None"]

BaseRepository_create(rows, obj) ==
    LET f == Session_add_flush(rows, obj)
    IN  [rows |-> f.rows,
         result |-> IF f.exc = "None" THEN Some(ToEntity(obj)) ELSE None,
         exc |-> f.exc]

BaseRepository_update(rows, obj) ==
    LET f == Session_add_flush(rows, obj)
    IN  [rows |-> f.rows,
         result |-> IF f.exc = "None" THEN Some(ToEntity(obj)) ELSE None,
         exc |-> f.exc]

BaseRepository_delete(rows, obj) ==
    LET f == Session_delete_flush(rows, obj)
    IN  [rows |-> f.rows, result |-> None, exc |-> f.exc]

BaseRepository_bulk_insert(rows, mappings) ==
    LET f == Session_execute_insert(rows, mappings)
    IN  [rows |-> f.rows, result |-> None, exc |-> f.exc]

BaseRepository_order_by(rows, column, direction) ==
    LET sort_column == Model_getattr(column)
    IN  IF ~Truthy(sort_column)
        THEN [rows |-> rows, result |-> <<>>, exc |-> "None"]
        ELSE LET q == IF direction = "desc"
                      THEN OrderedQuery(rows, sort_column, TRUE)
                      ELSE OrderedQuery(rows, sort_column, FALSE)
             IN  [rows |-> rows, result |-> q.result, exc |-> q.exc]

\* filter_by: query(model).filter_by(**kwargs).all()
BaseRepository_filter_by(rows, kwargs) ==
    LET q == FilteredQuery(rows, kwargs)
    IN  [rows |-> rows, result |-> q.result, exc |-> q.exc]

\* filter_by_one: query(model).filter_by(**kwargs).first()
BaseRepository_filter_by_one(rows, kwargs) ==
    LET q == FilteredQuery(rows, kwargs)
    IN  [rows |-> rows, result |-> First(q.result), exc |-> q.exc]

\* count: the query, filtered only when kwargs is non-empty, then
\* Query.count(): SELECT count(*) FROM (the query)
BaseRepository_count(rows, kwargs) ==
    LET query == [result |-> rows, exc |-> "None"]
        q == IF DictTruthy(kwargs) THEN FilteredQuery(rows, kwargs) ELSE query
    IN  [rows |-> rows, result |-> Len(q.result), exc |-> q.exc]

(***************************************************************************)
(* AsyncBaseRepository (non-blocking): the same statements, awaited.       *)
(***************************************************************************)
AsyncBaseRepository_get_by_id(rows, id) ==
    [rows |-> rows, result |-> First(SelectWhere(rows, id)), exc |-> "None"]

AsyncBaseRepository_get_all(rows, skip, limit) ==
    [rows |-> rows, result |-> Limit(Offset(rows, skip), limit), exc |-> "None"]

AsyncBaseRepository_create(rows, obj) ==
    LET f == Session_add_flush(rows, obj)
    IN  [rows |-> f.rows,
         result |-> IF f.exc = "None" THEN Some(ToEntity(obj)) ELSE None,
         exc |-> f.exc]

AsyncBaseRepository_update(rows, obj) ==
    LET f == Session_add_flush(rows, obj)
    IN  [rows |-> f.rows,
         result |-> IF f.exc = "None" THEN Some(ToEntity(obj)) ELSE None,
         exc |-> f.exc]

AsyncBaseRepository_delete(rows, obj) ==
    LET f == Session_delete_flush(rows, obj)
    IN  [rows |-> f.rows, result |-> None, exc |-> f.exc]

AsyncBaseRepository_bulk_insert(rows, mappings) ==
    LET f == Session_execute_insert(rows, mappings)
    IN  [rows |-> f.rows, result |-> None, exc |-> f.exc]

AsyncBaseRepository_order_by(rows, column, direction) ==
    LET sort_column == Model_getattr(column)
    IN  IF ~Truthy(sort_column)
        THEN [rows |-> rows, result |-> <<>>, exc |-> "None"]
        ELSE LET q == OrderedQuery(rows, sort_column, direction = "desc")
             IN  [rows |-> rows, result |-> q.result, exc |-> q.exc]

\* filter_by: execute(select(model).filter_by(**kwargs)).scalars().all()
AsyncBaseRepository_filter_by(rows, kwargs) ==
    LET q == FilteredQuery(rows, kwargs)
    IN  [rows |-> rows, result |-> q.result, exc |-> q.exc]

\* filter_by_one: execute(select(model).filter_by(**kwargs)).scalars().first()
AsyncBaseRepository_filter_by_one(rows, kwargs) ==
    LET q == FilteredQuery(rows, kwargs)
    IN  [rows |-> rows, result |-> First(q.result), exc |-> q.exc]

\* count: select(func.count()).select_from(model), filtered only when kwargs
\* is non-empty; result.scalar() is the one count(*) value
AsyncBaseRepository_count(rows, kwargs) ==
    LET query == [result |-> rows, exc |-> "None"]
        q == IF DictTruthy(kwargs) THEN FilteredQuery(rows, kwargs) ELSE query
    IN  [rows |-> rows, result |-> Len(q.result), exc |-> q.exc]


(***************************************************************************)
(* core/database.py: the session of a request and the four dependency      *)
(* generators.  A session is the durable rows, the rows its transaction    *)
(* sees, and whether a transaction is in progress.                         *)
(***************************************************************************)
\* SessionLocal() / AsyncSessionLocal(): a session on the committed rows
SessionLocal(rows) == [committed |-> rows, rows |-> rows, open |-> TRUE]

Session_commit(s) == [committed |-> s.rows, rows |-> s.rows, open |-> FALSE]

Session_rollback(s) ==
    [committed |-> s.committed, rows |-> s.committed, open |-> FALSE]

\* close() releases the connection; a transaction still in progress is
\* rolled back
Session_close(s) == IF s.open THEN Session_rollback(s) ELSE s

\* `with db.begin():` / `async with session.begin():` leaving the block
SessionTransaction_exit(s, raised) ==
    IF raised THEN Session_rollback(s) ELSE Session_commit(s)

\* faulty variant: the read-only generator commits before it closes
get_db_exit_commits(s, raised) == Session_close(Session_commit(s))

\* get_db after the yield: finally: db.close()
get_db_exit(s, raised) == Session_close(s)

\* faulty variant: the transaction is committed whether or not the handler raised
get_db_with_transaction_exit_always_commits(s, raised) ==
    Session_close(Session_commit(s))

\* get_db_with_transaction after the yield
get_db_with_transaction_exit(s, raised) ==
    Session_close(SessionTransaction_exit(s, raised))

\* get_async_db after the yield: async with AsyncSessionLocal() closes
get_async_db_exit(s, raised) == Session_close(s)

\* get_async_db_with_transaction after the yield
get_async_db_with_transaction_exit(s, raised) ==
    Session_close(SessionTransaction_exit(s, raised))

SyncGenerators == {"get_db", "get_db_with_transaction"}
AsyncGenerators == {"get_async_db", "get_async_db_with_transaction"}
Generators == SyncGenerators \cup AsyncGenerators
ReadOnlyGenerators == {"get_db", "get_async_db"}
TransactionalGenerators ==
    {"get_db_with_transaction", "get_async_db_with_transaction"}

GeneratorExit(g, s, raised) ==
    CASE g = "get_db" -> get_db_exit(s, raised)
      [] g = "get_db_with_transaction" -> get_db_with_transaction_exit(s, raised)
      [] g = "get_async_db" -> get_async_db_exit(s, raised)
      [] OTHER -> get_async_db_with_transaction_exit(s, raised)

NoCall == [op |-> "none"]

TypeOKRepo ==
    /\ uow \in Generators \cup {"none"}
    /\ pc \in {"idle", "handler", "returned", "raised", "closed"}
    /\ nwrites \in 0..MaxWrites

RepoInit ==
    /\ committed = <<>>
    /\ uow = "none"
    /\ txRows = <<>>
    /\ pc = "idle"
    /\ exc = "None"
    /\ ret = NoCall
    /\ staged = <<>>
    /\ snapshot = <<>>
    /\ nwrites = 0

\* a request arrives and FastAPI runs dependency generator g up to its yield
OpenSession(g) ==
    /\ UNCHANGED <<httpVars, pairVars>>
    /\ pc \in {"idle", "closed"}
    /\ LET s == SessionLocal(committed)
       IN  /\ txRows' = s.rows
           /\ snapshot' = s.committed
    /\ uow' = g
    /\ pc' = "handler"
    /\ exc' = "None"
    /\ ret' = NoCall
    /\ staged' = <<>>
    /\ nwrites' = 0
    /\ UNCHANGED committed

\* the handler's repository call returned `out`, or raised and the exception
\* leaves the handler unmodified
AfterCall(call, out, wrote) ==
    /\ UNCHANGED <<httpVars, pairVars>>
    /\ txRows' = out.rows
    /\ ret' = call
    /\ exc' = out.exc
    /\ pc' = IF out.exc = "None" THEN "handler" ELSE "raised"
    /\ staged' = IF out.exc = "None" THEN staged ELSE out.rows
    /\ nwrites' = IF wrote THEN nwrites + 1 ELSE nwrites
    /\ UNCHANGED <<committed, uow, snapshot>>

Call_get_by_id(id) ==
    /\ pc = "handler"
    /\ LET out == IF uow \in SyncGenerators
                  THEN BaseRepository_get_by_id(txRows, id)
                  ELSE AsyncBaseRepository_get_by_id(txRows, id)
       IN  AfterCall([op |-> "get_by_id", id |-> id, result |-> out.result,
                      exc |-> out.exc,
                      created |-> IF ret.op = "create" /\ ret.exc = "None"
                                  THEN ret.result ELSE None,
                      given |-> IF ret.op = "create" /\ ret.exc = "None"
                                THEN Some(ToEntity(ret.obj)) ELSE None],
                     out, FALSE)

Call_get_all(skip, limit) ==
    /\ pc = "handler"
    /\ LET out == IF uow \in SyncGenerators
                  THEN BaseRepository_get_all(txRows, skip, limit)
                  ELSE AsyncBaseRepository_get_all(txRows, skip, limit)
       IN  AfterCall([op |-> "get_all", skip |-> skip, limit |-> limit,
                      result |-> out.result, exc |-> out.exc], out, FALSE)

Call_order_by(column, direction) ==
    /\ pc = "handler"
    /\ LET out == IF uow \in SyncGenerators
                  THEN BaseRepository_order_by(txRows, column, direction)
                  ELSE AsyncBaseRepository_order_by(txRows, column, direction)
       IN  AfterCall([op |-> "order_by", column |-> column,
                      direction |-> direction,
                      result |-> out.result, exc |-> out.exc], out, FALSE)

Call_create(obj) ==
    /\ pc = "handler"
    /\ nwrites < MaxWrites
    /\ LET out == IF uow \in SyncGenerators
                  THEN BaseRepository_create(txRows, obj)
                  ELSE AsyncBaseRepository_create(txRows, obj)
       IN  AfterCall([op |-> "create", obj |-> obj, result |-> out.result,
                      exc |-> out.exc], out, TRUE)

Call_update(obj) ==
    /\ pc = "handler"
    /\ nwrites < MaxWrites
    /\ LET out == IF uow \in SyncGenerators
                  THEN BaseRepository_update(txRows, obj)
                  ELSE AsyncBaseRepository_update(txRows, obj)
       IN  AfterCall([op |-> "update", obj |-> obj, result |-> out.result,
                      exc |-> out.exc], out, TRUE)

Call_delete(obj) ==
    /\ pc = "handler"
    /\ nwrites < MaxWrites
    /\ LET out == IF uow \in SyncGenerators
                  THEN BaseRepository_delete(txRows, obj)
                  ELSE AsyncBaseRepository_delete(txRows, obj)
       IN  AfterCall([op |-> "delete", obj |-> obj, result |-> out.result,
                      exc |-> out.exc], out, TRUE)

Call_bulk_insert(mappings) ==
    /\ pc = "handler"
    /\ nwrites < MaxWrites
    /\ LET out == IF uow \in SyncGenerators
                  THEN BaseRepository_bulk_insert(txRows, mappings)
                  ELSE AsyncBaseRepository_bulk_insert(txRows, mappings)
       IN  AfterCall([op |-> "bulk_insert", mappings |-> mappings,
                      result |-> out.result, exc |-> out.exc], out, TRUE)

\* the handler finishes and returns its value
HandlerReturn ==
    /\ UNCHANGED <<httpVars, pairVars>>
    /\ pc = "handler"
    /\ pc' = "returned"
    /\ staged' = txRows
    /\ ret' = NoCall
    /\ UNCHANGED <<committed, uow, txRows, exc, snapshot, nwrites>>

\* the handler's own code raises, at any point of the request
HandlerRaise ==
    /\ UNCHANGED <<httpVars, pairVars>>
    /\ pc = "handler"
    /\ pc' = "raised"
    /\ exc' = "HandlerError"
    /\ staged' = txRows
    /\ ret' = NoCall
    /\ UNCHANGED <<committed, uow, txRows, snapshot, nwrites>>

\* FastAPI resumes the generator after its yield: normally when the handler
\* returned, by throwing the exception into it when the handler raised
CloseSession ==
    /\ UNCHANGED <<httpVars, pairVars>>
    /\ pc \in {"returned", "raised"}
    /\ LET s == GeneratorExit(uow,
                    [committed |-> committed, rows |-> txRows, open |-> TRUE],
                    pc = "raised")
       IN  /\ committed' = s.committed
           /\ txRows' = s.rows
    /\ pc' = "closed"
    /\ UNCHANGED <<uow, exc, ret, staged, snapshot, nwrites>>

BulkMappings ==
    UNION {[1..n -> Entity] : n \in 1..MaxBulk}

NextRepo ==
    \/ \E g \in Generators : OpenSession(g)
    \/ \E id \in Ids : Call_get_by_id(id)
    \/ \E skip \in 0..MaxSkip, limit \in 1..MaxLimit : Call_get_all(skip, limit)
    \/ \E column \in AttributeNames, direction \in Directions :
           Call_order_by(column, direction)
    \/ \E obj \in HandlerObjs(txRows) : Call_create(obj)
    \/ \E obj \in HandlerObjs(txRows) : Call_update(obj)
    \/ \E obj \in HandlerObjs(txRows) : Call_delete(obj)
    \/ \E mappings \in BulkMappings : Call_bulk_insert(mappings)
    \/ HandlerReturn
    \/ HandlerRaise
    \/ CloseSession

(***************************************************************************)
(* The request pipeline of main.py.  Starlette builds the stack, outermost *)
(* first: ServerErrorMiddleware (with the handler registered for           *)
(* Exception), CORSMiddleware, RequestIDMiddleware, ExceptionMiddleware     *)
(* (with the handlers registered for the other exception classes and       *)
(* FastAPI's defaults), the router.  Requests are plain (no CORS           *)
(* preflight).                                                             *)
(***************************************************************************)
Requests == {"A", "B"}

\* JSON null / Python None among strings
Null == "null"

\* the health route, a domain route wired as dependencies/*.py describes,
\* and a path no route matches
HealthPath == "/api/v1/health"
DomainPath == "/api/v1/tasks"
UnmatchedPath == "/api/v1/missing"
Paths == {HealthPath, DomainPath, UnmatchedPath}

\* X-Request-ID values a client may send, and the values uuid4 may produce
ClientIds == {"client-1"}
Uuids == {"uuid-1", "uuid-2"}

\* now_kst(): the current time at UTC+9
now_kst == "now_kst"

\* messages a handler may put in an exception ("" is the empty message)
Messages == {"secret detail", ""}
SomeData == "{field: reason}"

NoExc == [class |-> "None"]
\* no response yet
NoResp == [status |-> 0, body |-> [result |-> "none"], x_request_id |-> Null]
\* nothing raised yet
NoThrow == [exc |-> NoExc, via |-> "None", by |-> "None"]

(***************************************************************************)
(* exceptions/common.py                                                    *)
(***************************************************************************)
ErrorCodes == {"NOT_FOUND", "BAD_REQUEST", "UNAUTHORIZED", "FORBIDDEN",
               "ALREADY_EXISTS", "INTERNAL_SERVER_ERROR"}

\* ErrorCode.value: the text the enumeration gives each code
ErrorCode_value(error_code) ==
    CASE error_code = "NOT_FOUND" -> "NOT_FOUND.value"
      [] error_code = "BAD_REQUEST" -> "BAD_REQUEST.value"
      [] error_code = "UNAUTHORIZED" -> "UNAUTHORIZED.value"
      [] error_code = "FORBIDDEN" -> "FORBIDDEN.value"
      [] error_code = "ALREADY_EXISTS" -> "ALREADY_EXISTS.value"
      [] OTHER -> "INTERNAL_SERVER_ERROR.value"

\* Python truth of an optional string
StrTruthy(x) == x # Null /\ x # ""

\* ServiceException.__init__
ServiceException(error_code, message, status_code, data) ==
    [class |-> "ServiceException",
     error_code |-> error_code,
     message |-> IF StrTruthy(message) THEN message ELSE ErrorCode_value(error_code),
     data |-> data,
     status_code |-> status_code,
     detail |-> [code |-> error_code,
                 message |-> IF StrTruthy(message) THEN message
                             ELSE ErrorCode_value(error_code)]]

ServiceException_not_found(message) ==
    ServiceException("NOT_FOUND", message, 404, Null)

ServiceException_bad_request(message) ==
    ServiceException("BAD_REQUEST", message, 400, Null)

ServiceException_unauthorized(message) ==
    ServiceException("UNAUTHORIZED", message, 401, Null)

ServiceException_forbidden(message) ==
    ServiceException("FORBIDDEN", message, 403, Null)

ServiceException_conflict(message) ==
    ServiceException("ALREADY_EXISTS", message, 409, Null)

ServiceException_internal_server_error(message) ==
    ServiceException("INTERNAL_SERVER_ERROR", message, 500, Null)

\* what a domain handler may raise: a ServiceException from a factory or
\* from the constructor (default status 400), another HTTPException, or any
\* other exception
HandlerExceptions ==
    {[exc |-> ServiceException_not_found(m), via |-> "not_found"] : m \in Messages}
    \cup {[exc |-> ServiceException_bad_request(m), via |-> "bad_request"] : m \in Messages}
    \cup {[exc |-> ServiceException_unauthorized(m), via |-> "unauthorized"] : m \in Messages}
    \cup {[exc |-> ServiceException_forbidden(m), via |-> "forbidden"] : m \in Messages}
    \cup {[exc |-> ServiceException_conflict(m), via |-> "conflict"] : m \in Messages}
    \cup {[exc |-> ServiceException_internal_server_error(m),
           via |-> "internal_server_error"] : m \in Messages}
    \cup {[exc |-> ServiceException(c, Null, 400, d), via |-> "__init__"] :
              c \in {"NOT_FOUND", "ALREADY_EXISTS"}, d \in {Null, SomeData}}
    \cup {[exc |-> [class |-> "HTTPException", status_code |-> 403, detail |-> m],
           via |-> "raise"] : m \in Messages}
    \cup {[exc |-> [class |-> "Exception", message |-> m], via |-> "raise"] :
              m \in Messages}

(***************************************************************************)
(* schemas/common.py                                                       *)
(***************************************************************************)
SuccessResponse(data, message) ==
    [result |-> "SUCCESS", data |-> data, message |-> message]

BasicErrorResponse(errorCode, message, data, timestamp, request_id, path) ==
    [result |-> "FAIL", errorCode |-> errorCode, message |-> message,
     data |-> data, timestamp |-> timestamp, request_id |-> request_id,
     path |-> path]

\* JSONResponse(status_code, content): a response with no X-Request-ID yet
JSONResponse(status_code, content) ==
    [status |-> status_code, body |-> content, x_request_id |-> Null]

(***************************************************************************)
(* main.py: the exception handlers.  Each gives the log line it emits and  *)
(* the response it returns.                                                *)
(***************************************************************************)
\* faulty variant: the id is read from one state object shared by every request
Request_state_request_id_shared(r) ==
    state[CHOOSE q \in Requests : TRUE].request_id

\* getattr(request.state, "request_id", None)
Request_state_request_id(r) == state[r].request_id

\* faulty variant: the handler answers 400 whatever status the exception declares
service_exception_handler_status_400(r, e) ==
    LET request_id == Request_state_request_id(r)
    IN  [log |-> [level |-> "error", error_code |-> e.error_code,
                  message |-> e.message, request_id |-> request_id,
                  extra |-> ctx[r]],
         response |-> JSONResponse(400,
                          BasicErrorResponse(e.error_code, e.message, e.data,
                                             now_kst, request_id, req[r].path))]

service_exception_handler(r, e) ==
    LET request_id == Request_state_request_id(r)
    IN  [log |-> [level |-> "error", error_code |-> e.error_code,
                  message |-> e.message, request_id |-> request_id,
                  extra |-> ctx[r]],
         response |-> JSONResponse(e.status_code,
                          BasicErrorResponse(e.error_code, e.message, e.data,
                                             now_kst, request_id, req[r].path))]

GenericMessage == "server internal error occurred"

\* str(exc)
Exception_str(e) == IF e.class = "Exception" THEN e.message ELSE e.class

global_exception_handler(r, e) ==
    LET request_id == Request_state_request_id(r)
    IN  [log |-> [level |-> "exception", error_code |-> Null,
                  message |-> Exception_str(e), request_id |-> request_id,
                  extra |-> ctx[r]],
         response |-> JSONResponse(500,
                          BasicErrorResponse("INTERNAL_SERVER_ERROR", GenericMessage,
                                             Null, now_kst, request_id, req[r].path))]

\* FastAPI's default handler for HTTPException, which FastAPI() installs
http_exception_handler(r, e) ==
    JSONResponse(e.status_code, [detail |-> e.detail])

\* FastAPI's default handler for RequestValidationError
request_validation_exception_handler(r, e) ==
    JSONResponse(422, [detail |-> e.errors])

\* the handler ExceptionMiddleware finds for an exception: the one
\* registered for the nearest class of its method resolution order.
\* ServiceException is a subclass of HTTPException; the handler registered
\* for Exception is not here, Starlette gives it to ServerErrorMiddleware.
ExceptionMiddleware_lookup(e) ==
    CASE e.class = "ServiceException" -> "service_exception_handler"
      [] e.class = "HTTPException" -> "http_exception_handler"
      [] e.class = "RequestValidationError" -> "request_validation_exception_handler"
      [] OTHER -> "None"


(***************************************************************************)
(* The pipeline, one step per layer and direction.                         *)
(***************************************************************************)
\* logger.configure(extra={"request_id": "-"}): the value outside a request
LoggerDefaultExtra == "-"

HttpInit ==
    /\ hpc = [r \in Requests |-> "idle"]
    /\ req = [r \in Requests |-> [path |-> Null, x_request_id |-> Null]]
    /\ state = [r \in Requests |-> [request_id |-> Null]]
    /\ ctx = [r \in Requests |-> LoggerDefaultExtra]
    /\ assigned = [r \in Requests |-> Null]
    /\ thrown = [r \in Requests |-> NoThrow]
    /\ pending = [r \in Requests |-> NoExc]
    \* before the route is reached the response is not there
    /\ resp = [r \in Requests |-> NoResp]
    /\ logs = [r \in Requests |-> {}]
    /\ generated = {}

\* a client sends request r, with or without an X-Request-ID header; it
\* passes ServerErrorMiddleware and CORSMiddleware on its way in
Arrive(r, path, inbound) ==
    /\ UNCHANGED <<repoVars, pairVars>>
    /\ hpc[r] = "idle"
    /\ req' = [req EXCEPT ![r] = [path |-> path, x_request_id |-> inbound]]
    /\ hpc' = [hpc EXCEPT ![r] = "request_id_middleware"]
    /\ UNCHANGED <<state, ctx, assigned, thrown, pending, resp, logs, generated>>

\* RequestIDMiddleware before call_next: reuse the inbound header or
\* generate an identifier, store it in request.state and bind it in the
\* logging context of the request's task
RequestIDMiddleware_dispatch(r, uuid) ==
    /\ UNCHANGED <<repoVars, pairVars>>
    /\ hpc[r] = "request_id_middleware"
    /\ uuid \notin generated
    /\ LET request_id == IF req[r].x_request_id # Null
                         THEN req[r].x_request_id ELSE uuid
       IN  /\ state' = [state EXCEPT ![r] = [request_id |-> request_id]]
           /\ ctx' = [ctx EXCEPT ![r] = request_id]
           /\ assigned' = [assigned EXCEPT ![r] = request_id]
           /\ generated' = IF req[r].x_request_id # Null
                           THEN generated ELSE generated \cup {uuid}
    /\ hpc' = [hpc EXCEPT ![r] = "router"]
    /\ UNCHANGED <<req, thrown, pending, resp, logs>>

Raise(r, e, via, by) ==
    /\ pending' = [pending EXCEPT ![r] = e]
    /\ thrown' = [thrown EXCEPT ![r] = [exc |-> e, via |-> via, by |-> by]]
    /\ hpc' = [hpc EXCEPT ![r] = "exception_middleware"]

\* the router finds no route for the path: Starlette raises HTTPException(404)
Router_not_found(r) ==
    /\ UNCHANGED <<repoVars, pairVars>>
    /\ hpc[r] = "router"
    /\ req[r].path = UnmatchedPath
    /\ Raise(r, [class |-> "HTTPException", status_code |-> 404,
                 detail |-> "Not Found"], "raise", "router")
    /\ UNCHANGED <<req, state, ctx, assigned, resp, logs, generated>>

\* the route matches but the request fails FastAPI's validation of the
\* handler's parameters (the health route has none)
Router_validation_error(r) ==
    /\ UNCHANGED <<repoVars, pairVars>>
    /\ hpc[r] = "router"
    /\ req[r].path = DomainPath
    /\ Raise(r, [class |-> "RequestValidationError",
                 errors |-> "[{loc, msg, type}]"], "raise", "router")
    /\ UNCHANGED <<req, state, ctx, assigned, resp, logs, generated>>

Router_match(r) ==
    /\ UNCHANGED <<repoVars, pairVars>>
    /\ hpc[r] = "router"
    /\ req[r].path \in {HealthPath, DomainPath}
    /\ hpc' = [hpc EXCEPT ![r] = "handler"]
    /\ UNCHANGED <<req, state, ctx, assigned, thrown, pending, resp, logs, generated>>

\* api/routes/health.py
health_check(r) ==
    /\ UNCHANGED <<repoVars, pairVars>>
    /\ hpc[r] = "handler"
    /\ req[r].path = HealthPath
    /\ resp' = [resp EXCEPT ![r] =
                   JSONResponse(200, SuccessResponse("{status: healthy}",
                                                     "server is running"))]
    /\ hpc' = [hpc EXCEPT ![r] = "request_id_middleware_out"]
    /\ UNCHANGED <<req, state, ctx, assigned, thrown, pending, logs, generated>>

\* a domain handler returns its data in the success envelope
DomainHandler_return(r) ==
    /\ UNCHANGED <<repoVars, pairVars>>
    /\ hpc[r] = "handler"
    /\ req[r].path = DomainPath
    /\ resp' = [resp EXCEPT ![r] =
                   JSONResponse(200, SuccessResponse("{task}", Null))]
    /\ hpc' = [hpc EXCEPT ![r] = "request_id_middleware_out"]
    /\ UNCHANGED <<req, state, ctx, assigned, thrown, pending, logs, generated>>

\* a domain handler raises
DomainHandler_raise(r, x) ==
    /\ UNCHANGED <<repoVars, pairVars>>
    /\ hpc[r] = "handler"
    /\ req[r].path = DomainPath
    /\ Raise(r, x.exc, x.via, "handler")
    /\ UNCHANGED <<req, state, ctx, assigned, resp, logs, generated>>

\* ExceptionMiddleware: run the handler found for the exception, or let the
\* exception go on up the stack
ExceptionMiddleware_call(r) ==
    /\ UNCHANGED <<repoVars, pairVars>>
    /\ hpc[r] = "exception_middleware"
    /\ LET e == pending[r]
           h == ExceptionMiddleware_lookup(e)
       IN  CASE h = "service_exception_handler" ->
                  /\ resp' = [resp EXCEPT ![r] = service_exception_handler(r, e).response]
                  /\ logs' = [logs EXCEPT ![r] = @ \cup {service_exception_handler(r, e).log}]
                  /\ pending' = [pending EXCEPT ![r] = NoExc]
             [] h = "http_exception_handler" ->
                  /\ resp' = [resp EXCEPT ![r] = http_exception_handler(r, e)]
                  /\ pending' = [pending EXCEPT ![r] = NoExc]
                  /\ UNCHANGED logs
             [] h = "request_validation_exception_handler" ->
                  /\ resp' = [resp EXCEPT ![r] = request_validation_exception_handler(r, e)]
                  /\ pending' = [pending EXCEPT ![r] = NoExc]
                  /\ UNCHANGED logs
             [] OTHER -> UNCHANGED <<resp, logs, pending>>
    /\ hpc' = [hpc EXCEPT ![r] = "request_id_middleware_out"]
    /\ UNCHANGED <<req, state, ctx, assigned, thrown, generated>>

\* RequestIDMiddleware after call_next: the response that came back gets the
\* X-Request-ID header; an exception that came back passes through.  Either
\* way the logging context of the request ends.
RequestIDMiddleware_after(r) ==
    /\ UNCHANGED <<repoVars, pairVars>>
    /\ hpc[r] = "request_id_middleware_out"
    /\ IF pending[r] = NoExc
       THEN /\ resp' = [resp EXCEPT ![r].x_request_id = assigned[r]]
            /\ hpc' = [hpc EXCEPT ![r] = "done"]
       ELSE /\ UNCHANGED resp
            /\ hpc' = [hpc EXCEPT ![r] = "server_error_middleware"]
    /\ ctx' = [ctx EXCEPT ![r] = LoggerDefaultExtra]
    /\ UNCHANGED <<req, state, assigned, thrown, pending, logs, generated>>

\* ServerErrorMiddleware: the exception reached the outermost layer, which
\* answers with the handler registered for Exception and sends the response
\* itself, above every other middleware
ServerErrorMiddleware_call(r) ==
    /\ UNCHANGED <<repoVars, pairVars>>
    /\ hpc[r] = "server_error_middleware"
    /\ resp' = [resp EXCEPT ![r] = global_exception_handler(r, pending[r]).response]
    /\ logs' = [logs EXCEPT ![r] = @ \cup {global_exception_handler(r, pending[r]).log}]
    /\ hpc' = [hpc EXCEPT ![r] = "done"]
    /\ UNCHANGED <<req, state, ctx, assigned, thrown, pending, generated>>

NextHttp ==
    \/ \E r \in Requests, path \in Paths, inbound \in ClientIds \cup {Null} :
           Arrive(r, path, inbound)
    \/ \E r \in Requests, uuid \in Uuids : RequestIDMiddleware_dispatch(r, uuid)
    \/ \E r \in Requests : Router_not_found(r)
    \/ \E r \in Requests : Router_validation_error(r)
    \/ \E r \in Requests : Router_match(r)
    \/ \E r \in Requests : health_check(r)
    \/ \E r \in Requests : DomainHandler_return(r)
    \/ \E r \in Requests, x \in HandlerExceptions : DomainHandler_raise(r, x)
    \/ \E r \in Requests : ExceptionMiddleware_call(r)
    \/ \E r \in Requests : RequestIDMiddleware_after(r)
    \/ \E r \in Requests : ServerErrorMiddleware_call(r)

(***************************************************************************)
(* The two repositories side by side.  One handler drives a BaseRepository *)
(* on a session of SessionLocal and an AsyncBaseRepository on a session of *)
(* AsyncSessionLocal, both opened on the same rows, with the same calls.   *)
(* Between calls the handler may assign a column of an entity it holds, as *)
(* it does to prepare an update.  A session here is the rows its           *)
(* transaction sees, the entities whose in-memory column differs from what *)
(* was flushed (dirty), and its autoflush setting.                         *)
(***************************************************************************)
\* sessionmaker(autocommit=False, autoflush=False, bind=engine)
SessionLocal_autoflush == FALSE

\* async_sessionmaker(async_engine, expire_on_commit=False): autoflush is
\* left at the session's default, True
AsyncSessionLocal_autoflush == TRUE

NewSession(rows, autoflush) ==
    [rows |-> rows, dirty |-> {}, autoflush |-> autoflush]

\* the instance the identity map holds for a row: the row, with the column
\* the handler assigned if that assignment is not flushed yet
Instance(s, row) ==
    IF \E d \in s.dirty : d.id = row.id
    THEN CHOOSE d \in s.dirty : d.id = row.id
    ELSE row

\* the entities a query returns are the identity map's instances
IdentityMap(s, result) == [k \in 1..Len(result) |-> Instance(s, result[k])]

\* Session.flush(): an UPDATE for every dirty instance
Session_flush(s) ==
    [s EXCEPT !.rows = [k \in 1..Len(s.rows) |-> Instance(s, s.rows[k])],
              !.dirty = {}]

\* before a query the session flushes if autoflush is on
Session_autoflush(s) == IF s.autoflush THEN Session_flush(s) ELSE s

\* entity.value = v on an instance the handler holds
Session_setattr(s, id, v) ==
    [s EXCEPT !.dirty = {d \in s.dirty : d.id # id}
                        \cup {[id |-> id, value |-> v]}]

\* a query method of a repository run in session s: the session autoflushes,
\* then the method runs on the rows the transaction sees
QueryRows(s) == Session_autoflush(s).rows

\* what the query method gave (out) as the caller receives it
SessionQuery(s, out, entities) ==
    LET a == Session_autoflush(s)
    IN  [session |-> a,
         result |-> IF entities THEN IdentityMap(a, out.result) ELSE out.result,
         exc |-> out.exc]

\* a writing method of a repository run in session s gave out: its statement
\* and its flush, which also writes every other dirty instance
SessionWrite(s, out) ==
    [session |-> IF out.exc = "None"
                 THEN Session_flush([s EXCEPT !.rows = out.rows])
                 ELSE s,
     result |-> out.result,
     exc |-> out.exc]

\* the object as session s holds it: a persistent one is the instance of its
\* row, with its in-memory column
ObjIn(s, obj) ==
    IF obj.state = "persistent" /\ obj.id \in RowIds(s.rows)
    THEN LET row == First(SelectWhere(s.rows, obj.id))[1]
         IN  [obj EXCEPT !.value = Instance(s, row).value]
    ELSE obj

\* the table contents a unit of work can start on
Stores ==
    {rows \in UNION {[1..n -> Entity] : n \in 0..MaxId} :
        \A j, k \in 1..Len(rows) : j # k => rows[j].id # rows[k].id}

\* the objects the handler can pass: any transient one, and the persistent
\* ones it holds (with the column as the row has it; ObjIn gives the instance)
PairObjs ==
    {o \in Obj : o.state = "persistent" =>
        /\ o.id \in pheld
        /\ \E k \in 1..Len(psync.rows) : psync.rows[k] = ToEntity(o)}

NoSession == NewSession(<<>>, FALSE)

PairInit ==
    /\ ppc = "idle"
    /\ psync = NoSession
    /\ pasync = NoSession
    /\ plast = [call |-> [op |-> "none"]]
    /\ pheld = {}
    /\ pn = 0

\* both units of work start on the same store content
Pair_open(rows) ==
    /\ ppc = "idle"
    /\ ppc' = "handler"
    /\ psync' = NewSession(rows, SessionLocal_autoflush)
    /\ pasync' = NewSession(rows, AsyncSessionLocal_autoflush)
    /\ plast' = [call |-> [op |-> "open"]]
    /\ UNCHANGED <<pheld, pn>>
    /\ UNCHANGED <<repoVars, httpVars>>

\* the same call returned x from BaseRepository and y from
\* AsyncBaseRepository; an exception leaves the handler
PairAfter(call, x, y, held) ==
    /\ psync' = x.session
    /\ pasync' = y.session
    /\ plast' = [call |-> call,
                 sync |-> [result |-> x.result, exc |-> x.exc],
                 async |-> [result |-> y.result, exc |-> y.exc]]
    /\ ppc' = IF x.exc = "None" /\ y.exc = "None" THEN "handler" ELSE "raised"
    /\ pheld' = held
    /\ pn' = pn + 1
    /\ UNCHANGED <<repoVars, httpVars>>

\* the entities both repositories handed to the handler
Handed(x, y) ==
    IF x.exc = "None" /\ y.exc = "None"
    THEN pheld \cup (RowIds(x.result) \cap RowIds(y.result))
    ELSE pheld

\* the handler assigns a column of an entity it holds
Pair_setattr(id, v) ==
    /\ ppc = "handler"
    /\ pn < MaxCalls
    /\ id \in pheld
    /\ psync' = Session_setattr(psync, id, v)
    /\ pasync' = Session_setattr(pasync, id, v)
    /\ plast' = [call |-> [op |-> "setattr", id |-> id, value |-> v]]
    /\ pn' = pn + 1
    /\ UNCHANGED <<ppc, pheld>>
    /\ UNCHANGED <<repoVars, httpVars>>

Pair_get_by_id(id) ==
    /\ ppc = "handler"
    /\ pn < MaxCalls
    /\ LET x == SessionQuery(psync,
                    BaseRepository_get_by_id(QueryRows(psync), id), TRUE)
           y == SessionQuery(pasync,
                    AsyncBaseRepository_get_by_id(QueryRows(pasync), id), TRUE)
       IN  PairAfter([op |-> "get_by_id", id |-> id], x, y, Handed(x, y))

Pair_get_all(skip, limit) ==
    /\ ppc = "handler"
    /\ pn < MaxCalls
    /\ LET x == SessionQuery(psync,
                    BaseRepository_get_all(QueryRows(psync), skip, limit), TRUE)
           y == SessionQuery(pasync,
                    AsyncBaseRepository_get_all(QueryRows(pasync), skip, limit),
                    TRUE)
       IN  PairAfter([op |-> "get_all", skip |-> skip, limit |-> limit],
                     x, y, Handed(x, y))

Pair_filter_by(kwargs) ==
    /\ ppc = "handler"
    /\ pn < MaxCalls
    /\ LET x == SessionQuery(psync,
                    BaseRepository_filter_by(QueryRows(psync), kwargs), TRUE)
           y == SessionQuery(pasync,
                    AsyncBaseRepository_filter_by(QueryRows(pasync), kwargs),
                    TRUE)
       IN  PairAfter([op |-> "filter_by", kwargs |-> kwargs], x, y, Handed(x, y))

Pair_filter_by_one(kwargs) ==
    /\ ppc = "handler"
    /\ pn < MaxCalls
    /\ LET x == SessionQuery(psync,
                    BaseRepository_filter_by_one(QueryRows(psync), kwargs), TRUE)
           y == SessionQuery(pasync,
                    AsyncBaseRepository_filter_by_one(QueryRows(pasync), kwargs),
                    TRUE)
       IN  PairAfter([op |-> "filter_by_one", kwargs |-> kwargs],
                     x, y, Handed(x, y))

Pair_count(kwargs) ==
    /\ ppc = "handler"
    /\ pn < MaxCalls
    /\ LET x == SessionQuery(psync,
                    BaseRepository_count(QueryRows(psync), kwargs), FALSE)
           y == SessionQuery(pasync,
                    AsyncBaseRepository_count(QueryRows(pasync), kwargs), FALSE)
       IN  PairAfter([op |-> "count", kwargs |-> kwargs], x, y, pheld)

Pair_order_by(column, direction) ==
    /\ ppc = "handler"
    /\ pn < MaxCalls
    /\ LET x == SessionQuery(psync,
                    BaseRepository_order_by(QueryRows(psync), column, direction),
                    TRUE)
           y == SessionQuery(pasync,
                    AsyncBaseRepository_order_by(QueryRows(pasync), column, direction),
                    TRUE)
       IN  PairAfter([op |-> "order_by", column |-> column,
                      direction |-> direction], x, y, Handed(x, y))

Pair_create(obj) ==
    /\ ppc = "handler"
    /\ pn < MaxCalls
    /\ LET x == SessionWrite(psync,
                    BaseRepository_create(psync.rows, ObjIn(psync, obj)))
           y == SessionWrite(pasync,
                    AsyncBaseRepository_create(pasync.rows, ObjIn(pasync, obj)))
       IN  PairAfter([op |-> "create", obj |-> obj], x, y, Handed(x, y))

Pair_update(obj) ==
    /\ ppc = "handler"
    /\ pn < MaxCalls
    /\ LET x == SessionWrite(psync,
                    BaseRepository_update(psync.rows, ObjIn(psync, obj)))
           y == SessionWrite(pasync,
                    AsyncBaseRepository_update(pasync.rows, ObjIn(pasync, obj)))
       IN  PairAfter([op |-> "update", obj |-> obj], x, y, Handed(x, y))

Pair_delete(obj) ==
    /\ ppc = "handler"
    /\ pn < MaxCalls
    /\ LET x == SessionWrite(psync,
                    BaseRepository_delete(psync.rows, ObjIn(psync, obj)))
           y == SessionWrite(pasync,
                    AsyncBaseRepository_delete(pasync.rows, ObjIn(pasync, obj)))
       IN  PairAfter([op |-> "delete", obj |-> obj], x, y,
                     IF x.exc = "None" /\ y.exc = "None"
                     THEN pheld \ {obj.id} ELSE pheld)

Pair_bulk_insert(mappings) ==
    /\ ppc = "handler"
    /\ pn < MaxCalls
    /\ LET x == SessionWrite(psync,
                    BaseRepository_bulk_insert(psync.rows, mappings))
           y == SessionWrite(pasync,
                    AsyncBaseRepository_bulk_insert(pasync.rows, mappings))
       IN  PairAfter([op |-> "bulk_insert", mappings |-> mappings], x, y, pheld)

NextPair ==
    \/ \E rows \in Stores : Pair_open(rows)
    \/ \E id \in Ids, v \in Values : Pair_setattr(id, v)
    \/ \E id \in Ids : Pair_get_by_id(id)
    \/ \E skip \in 0..MaxSkip, limit \in 1..MaxLimit : Pair_get_all(skip, limit)
    \/ \E kwargs \in Kwargs : Pair_filter_by(kwargs)
    \/ \E kwargs \in Kwargs : Pair_filter_by_one(kwargs)
    \/ \E kwargs \in Kwargs : Pair_count(kwargs)
    \/ \E column \in AttributeNames, direction \in Directions :
           Pair_order_by(column, direction)
    \/ \E obj \in PairObjs : Pair_create(obj)
    \/ \E obj \in PairObjs : Pair_update(obj)
    \/ \E obj \in PairObjs : Pair_delete(obj)
    \/ \E mappings \in BulkMappings : Pair_bulk_insert(mappings)

(***************************************************************************)
(* The specifications.                                                     *)
(***************************************************************************)
Init == RepoInit /\ HttpInit /\ PairInit

\* the unit of work and the repositories, one request after another
SpecRepo == Init /\ [][NextRepo]_vars

\* two concurrent requests through the pipeline
SpecHttp == Init /\ [][NextHttp]_vars

\* one handler driving both repositories with the same calls
SpecPair == Init /\ [][NextPair]_vars

(***************************************************************************)
(* Properties of the unit of work and the repositories (SpecRepo).         *)
(***************************************************************************)

\* C1: a transactional unit of work (get_db_with_transaction or
\* get_async_db_with_transaction) ends with every staged write committed
\* when the handler completed without an exception, and with none of them
\* committed when any exception was raised, by a repository call or by the
\* handler's own code after its last repository call.
C1_TransactionalCommitOrRollback ==
    (pc = "closed" /\ uow \in TransactionalGenerators) =>
        IF exc = "None" THEN committed = staged ELSE committed = snapshot

\* a transactional request whose handler staged writes and then raised
C1_Witness ==
    /\ pc = "closed"
    /\ uow \in TransactionalGenerators
    /\ exc = "HandlerError"
    /\ nwrites > 0
    /\ staged # snapshot
    /\ committed = snapshot

\* a transactional request whose handler staged writes and returned
C1_WitnessCommit ==
    /\ pc = "closed"
    /\ uow \in TransactionalGenerators
    /\ exc = "None"
    /\ nwrites > 0
    /\ staged # snapshot

\* C2: a read-only unit of work (get_db or get_async_db) never commits: the
\* repository calls only flush, so the committed rows stay those of the
\* request's start while the handler runs and after the session is closed,
\* whether the handler returned or raised.
C2_ReadOnlyNeverCommits ==
    (uow \in ReadOnlyGenerators) => committed = snapshot

\* a read-only request that staged writes, returned, and was closed
C2_Witness ==
    /\ pc = "closed"
    /\ uow \in ReadOnlyGenerators
    /\ exc = "None"
    /\ nwrites > 0
    /\ staged # snapshot

\* C8: get_by_id with the id of the entity the preceding create returned
\* gives back the entity that was created; get_by_id of an id no row has
\* gives None; get_by_id never raises.
C8_CreateGetByIdRoundTrip ==
    (ret.op = "get_by_id") =>
        /\ ret.exc = "None"
        /\ (ret.created # None /\ ret.id = ret.created[1].id
                => ret.result = ret.given)
        /\ (ret.id \notin RowIds(txRows) => ret.result = None)

\* a create that followed another write, then get_by_id of the new id
C8_Witness ==
    /\ ret.op = "get_by_id"
    /\ ret.created # None
    /\ ret.id = ret.created[1].id
    /\ ret.result # None
    /\ nwrites >= 2

\* C9: for skip >= 0 and limit > 0, get_all(skip, limit) returns at most
\* limit entities, exactly those at positions skip+1 .. skip+limit of the
\* default order, so none of the first skip.
C9_GetAllWindow ==
    (ret.op = "get_all") =>
        LET n == Len(txRows)
            rest == IF n > ret.skip THEN n - ret.skip ELSE 0
        IN  /\ ret.exc = "None"
            /\ Len(ret.result) <= ret.limit
            /\ Len(ret.result) = IF rest < ret.limit THEN rest ELSE ret.limit
            /\ \A k \in 1..Len(ret.result) : ret.result[k] = txRows[ret.skip + k]
            /\ \A k \in 1..Len(ret.result) :
                   \A j \in 1..n : j <= ret.skip => ret.result[k] # txRows[j]

\* get_all(1, 1) on three rows: one row skipped, one returned, one cut off
C9_Witness ==
    /\ ret.op = "get_all"
    /\ ret.skip = 1
    /\ ret.limit = 1
    /\ Len(txRows) = 3
    /\ Len(ret.result) = 1

\* whether seq holds its rows in the order of column name
IsSortedBy(seq, name, descending) ==
    \A k \in 1..(Len(seq) - 1) :
        IF descending
        THEN ColumnOf(seq[k], name) >= ColumnOf(seq[k + 1], name)
        ELSE ColumnOf(seq[k], name) <= ColumnOf(seq[k + 1], name)

\* whether seq holds exactly the rows of rows
SameRows(seq, rows) ==
    /\ Len(seq) = Len(rows)
    /\ \A k \in 1..Len(rows) : \E j \in 1..Len(seq) : seq[j] = rows[k]

\* C10: order_by with a name that is not a field of the entity type returns
\* the empty sequence and raises nothing; with a field it returns all rows
\* sorted by it, descending for "desc" and ascending otherwise.
C10_OrderByUnknownFieldIsEmpty ==
    (ret.op = "order_by") =>
        /\ ret.exc = "None"
        /\ (ret.column \notin Columns => ret.result = <<>>)
        /\ (ret.column \in Columns =>
                /\ SameRows(ret.result, txRows)
                /\ IsSortedBy(ret.result, ret.column, ret.direction = "desc"))


(***************************************************************************)
(* Properties of the request pipeline (SpecHttp).                          *)
(***************************************************************************)
IsSuccessEnvelope(body) ==
    /\ DOMAIN body = {"result", "data", "message"}
    /\ body.result = "SUCCESS"

IsErrorEnvelope(body) ==
    /\ DOMAIN body = {"result", "errorCode", "message", "data", "timestamp",
                      "request_id", "path"}
    /\ body.result = "FAIL"
    /\ body.errorCode # Null

Done(r) == hpc[r] = "done"

\* C3: every response, for a matched route that succeeds, a handler that
\* raises a ServiceException or any other exception, an unmatched path or a
\* framework-raised HTTP or validation error, has a body that is the
\* success envelope or the error envelope.
C3_EveryResponseIsAnEnvelope ==
    \A r \in Requests :
        Done(r) => IsSuccessEnvelope(resp[r].body) \/ IsErrorEnvelope(resp[r].body)

\* C4: a ServiceException raised by a handler is answered with the status
\* the exception declares and an error envelope that carries its error code,
\* message and data, the path of the request and the correlation id of that
\* request; one made by not_found is answered 404 with errorCode NOT_FOUND.
C4_ServiceExceptionEnvelope ==
    \A r \in Requests :
        (Done(r) /\ thrown[r].exc.class = "ServiceException") =>
            /\ resp[r].status = thrown[r].exc.status_code
            /\ IsErrorEnvelope(resp[r].body)
            /\ resp[r].body.errorCode = thrown[r].exc.error_code
            /\ resp[r].body.message = thrown[r].exc.message
            /\ resp[r].body.data = thrown[r].exc.data
            /\ resp[r].body.path = req[r].path
            /\ resp[r].body.request_id = assigned[r]
            /\ assigned[r] # Null
            /\ (req[r].x_request_id # Null => assigned[r] = req[r].x_request_id)
            /\ (thrown[r].via = "not_found" =>
                    resp[r].status = 404 /\ resp[r].body.errorCode = "NOT_FOUND")

\* a not-found ServiceException answered for a request that sent its own id
C4_Witness ==
    \E r \in Requests :
        /\ Done(r)
        /\ thrown[r].exc.class = "ServiceException"
        /\ thrown[r].via = "not_found"
        /\ req[r].x_request_id # Null
        /\ resp[r].status = 404

\* whether the text of the exception shows anywhere in the response body
Leaks(body, e) ==
    \E f \in DOMAIN body :
        \/ (e.class = "Exception" /\ e.message # "" /\ body[f] = e.message)
        \/ (e.class = "HTTPException" /\ e.detail # "" /\ body[f] = e.detail)

\* C5: an exception raised by a handler that is not a ServiceException is
\* answered 500 with errorCode INTERNAL_SERVER_ERROR and the fixed message,
\* and nothing of the exception's own message is in the body.
C5_UnclassifiedIsGeneric500 ==
    \A r \in Requests :
        (Done(r) /\ thrown[r].exc.class # "None" /\ thrown[r].by = "handler"
                 /\ thrown[r].exc.class # "ServiceException") =>
            /\ resp[r].status = 500
            /\ IsErrorEnvelope(resp[r].body)
            /\ resp[r].body.errorCode = "INTERNAL_SERVER_ERROR"
            /\ resp[r].body.message = GenericMessage
            /\ ~Leaks(resp[r].body, thrown[r].exc)

\* C6: every response carries a non-empty X-Request-ID header, for a
\* success, a ServiceException and an exception the catch-all handler
\* turned into a 500.
C6_EveryResponseHasRequestId ==
    \A r \in Requests :
        Done(r) => resp[r].x_request_id # Null /\ resp[r].x_request_id # ""

\* C7: whatever the interleaving of the two requests, the request id seen
\* for a request in its request.state, in the log lines of its handling, in
\* its error envelope and in its response header is its own correlation id,
\* never the other request's.
C7_RequestIdIsRequestScoped ==
    \A r \in Requests :
        /\ state[r].request_id = assigned[r]
        /\ \A line \in logs[r] :
               /\ line.request_id = assigned[r]
               /\ line.extra \in {LoggerDefaultExtra, assigned[r]}
        /\ (resp[r] # NoResp /\ IsErrorEnvelope(resp[r].body)
                => resp[r].body.request_id = assigned[r])
        /\ resp[r].x_request_id \in {Null, assigned[r]}
        /\ ctx[r] \in {LoggerDefaultExtra, assigned[r]}

\* both requests in flight with different ids: the error envelope and the
\* log line of one are made while the other is inside its handler
C7_Witness ==
    \E r, q \in Requests :
        /\ r # q
        /\ assigned[r] # Null /\ assigned[q] # Null
        /\ assigned[r] # assigned[q]
        /\ hpc[q] = "handler"
        /\ hpc[r] = "request_id_middleware_out"
        /\ resp[r] # NoResp
        /\ IsErrorEnvelope(resp[r].body)
        /\ logs[r] # {}

(***************************************************************************)
(* Properties of the two repositories side by side (SpecPair).             *)
(***************************************************************************)
Called == ppc \in {"handler", "raised"} /\ plast.call.op \notin {"open", "setattr"}

\* C11: BaseRepository and AsyncBaseRepository, started on the same store
\* content and driven by the same calls with the same arguments, return the
\* same result (or raise the same exception) at every step and leave the
\* unit of work with the same rows to commit.
C11_RepositoriesBehaveIdentically ==
    Called =>
        /\ plast.sync = plast.async
        /\ Session_flush(psync).rows = Session_flush(pasync).rows

====
